---- MODULE Spec2Model ----
(***************************************************************************)
(* The financial-research agent: six nodes (retrieve_node, analyzer,       *)
(* fetcher, financial_tool, listing_tool, formatter) wired by build_graph  *)
(* into a LangGraph StateGraph over the State of src/src/state.py.         *)
(*                                                                         *)
(* The graph is run superstep by superstep: every node of the frontier is  *)
(* invoked on the channel values, its returned mapping is kept until all   *)
(* nodes of the frontier have returned, then the writes are applied per    *)
(* channel (plain fields accept one write per superstep, the Annotated     *)
(* fields are folded with their reducer) and the edges and routers give    *)
(* the next frontier.                                                      *)
(*                                                                         *)
(* Texts are rendered in ASCII; a Python None is the string "None" for     *)
(* string fields and the empty sequence for record fields (a present       *)
(* record r is <<r>>).                                                     *)
(***************************************************************************)
EXTENDS Integers, Sequences, FiniteSets, TLC

VARIABLES
    st,        \* the State: one value per channel
    frontier,  \* the nodes of the current superstep
    done,      \* the nodes of the frontier that have returned
    upd,       \* the mapping each of them returned
    hung,      \* the nodes of the frontier whose collaborator call never returns
    status,    \* "running", "terminal" (END reached) or "aborted" (the executor raised)
    step,      \* number of the current superstep, retrieve_node's being 1
    invoked,   \* how many times each node has been scheduled
    reply,     \* what the intent model answered to the analyzer
    alias,     \* whether a node receives the channels' own list and dict objects
               \* (TRUE) or copies of them (FALSE)
    calls,     \* the node calls that have returned, in completion order: the
               \* mapping the node received, that mapping after the call and
               \* the keys of the update it returned
    progress,  \* the progress lines on_message has streamed to the user
    chat,      \* what the reply model did for the formatter (None: not called)
    fn         \* arguments and results of the functions of state.py applied on
               \* their own (FunSpec); not used by a run of the graph

vars == <<st, frontier, done, upd, hung, status, step, invoked, reply, alias, calls, progress, chat, fn>>

(***************************************************************************)
(* Bounds                                                                  *)
(***************************************************************************)
\* longest conversation history the caller supplies
MaxHistory == 1
\* supersteps after which the model stops a run (only a cyclic graph gets there)
MaxSupersteps == 8
MaxQueryLen == 2    \* longest user_query given to make_initial_state on its own

(***************************************************************************)
(* The graph: nodes in the order build_graph registers them                *)
(***************************************************************************)
NodeOrder == <<"retrieve_node", "analyzer", "fetcher", "financial_tool", "listing_tool", "formatter">>

Nodes == {NodeOrder[i] : i \in DOMAIN NodeOrder}

Lookups == {"financial_tool", "listing_tool"}

\* the fields State declares; a returned key outside this set writes nothing
Fields == {"user_query", "company_name", "intent", "confidence", "need_financial", "need_listing", "financial_data", "listing_data", "chat_reply", "card_json", "conversation_history", "errors", "trace", "parallel_done"}

\* the fields annotated with a reducer (operator.add, merge_parallel_done)
ReducerFields == {"conversation_history", "errors", "trace", "parallel_done"}

None == "None"

(***************************************************************************)
(* state.py                                                                *)
(***************************************************************************)
\* a parallel_done mapping may lack a key; .get(key, False) reads it as false
GetFlag(m, k) == IF k \in DOMAIN m THEN m[k] ELSE FALSE

merge_parallel_done_right_wins(left, right) ==
    [financial |-> IF "financial" \in DOMAIN right THEN right.financial ELSE GetFlag(left, "financial"),
     listing |-> IF "listing" \in DOMAIN right THEN right.listing ELSE GetFlag(left, "listing")]

merge_parallel_done(left, right) ==
    [financial |-> GetFlag(left, "financial") \/ GetFlag(right, "financial"),
     listing |-> GetFlag(left, "listing") \/ GetFlag(right, "listing")]

\* str.strip() on a text given as its sequence of characters
RECURSIVE lstrip(_)
lstrip(t) == IF t # <<>> /\ Head(t) = " " THEN lstrip(Tail(t)) ELSE t

RECURSIVE rstrip(_)
rstrip(t) == IF t # <<>> /\ t[Len(t)] = " " THEN rstrip(SubSeq(t, 1, Len(t) - 1)) ELSE t

strip(t) == rstrip(lstrip(t))

make_initial_state_raises_no_strip(arg) ==
    IF arg.type # "str" THEN "TypeError"
    ELSE IF arg.text = <<>> THEN "ValueError"
    ELSE None

\* make_initial_state, the validation of the argument: the exception it raises
\* (None: it goes on to build the State); arg is the Python object by type and,
\* for a str, its characters
make_initial_state_raises(arg) ==
    IF arg.type # "str" THEN "TypeError"
    ELSE IF strip(arg.text) = <<>> THEN "ValueError"
    ELSE None

\* make_initial_state, the State it builds for an accepted user_query
make_initial_state(user_query) ==
    [user_query |-> user_query,
     company_name |-> None,
     intent |-> None,
     confidence |-> None,
     need_financial |-> FALSE,
     need_listing |-> FALSE,
     financial_data |-> <<>>,
     listing_data |-> <<>>,
     chat_reply |-> None,
     card_json |-> <<>>,
     conversation_history |-> <<>>,
     errors |-> <<>>,
     trace |-> <<>>,
     parallel_done |-> [financial |-> FALSE, listing |-> FALSE]]

\* the reducer of an Annotated field
Reduce_last_value(f, cur, val) ==
    IF f = "parallel_done" THEN merge_parallel_done(cur, val) ELSE val

Reduce(f, cur, val) ==
    IF f = "parallel_done" THEN merge_parallel_done(cur, val) ELSE cur \o val

(***************************************************************************)
(* app.py: the caller's initial State                                      *)
(***************************************************************************)
HistoryOf(n) ==
    [i \in 1..n |-> [role |-> IF i % 2 = 1 THEN "user" ELSE "assistant", content |-> "m"]]

Histories == {HistoryOf(n) : n \in 0..MaxHistory}

\* on_message: make_initial_state, then conversation_history = recent_history
InitialState(h) == [make_initial_state("q") EXCEPT !.conversation_history = h]

(***************************************************************************)
(* nodes/retriever.py                                                      *)
(* A node is an operator from the mapping it receives to                   *)
(*   state: that mapping after the call (nodes write into it),             *)
(*   ret:   the mapping the node returns to the executor.                  *)
(***************************************************************************)
\* found: whether the vector store returned documents
\* What the vector store can do for _sync_retrieve: importing its module
\* fails (import_error), get_vector_store, get_document_count or search raises
\* (store_error), the store is empty, no document passes the threshold, or
\* documents are found.
SyncOutcomes == {"import_error", "store_error", "empty_store", "no_match", "documents"}

\* _sync_retrieve: the import of the store stands before the try block, so
\* its failure leaves the function as an exception; every later failure is
\* caught and gives the empty list
sync_retrieve(outcome) ==
    [raised |-> outcome = "import_error",
     context |-> IF outcome = "documents" THEN <<"doc">> ELSE <<>>]

retrieve_node(s, found) ==
    [state |-> s,
     ret |-> [context |-> IF found THEN <<"doc">> ELSE <<>>,
              trace |-> <<IF found THEN "retrieve_node: found documents" ELSE "retrieve_node: no documents">>]]

(***************************************************************************)
(* nodes/analyzer.py                                                       *)
(***************************************************************************)
Companies == {None, "", "Apple", "UnknownCorp"}

\* "other" stands for any string outside IntentType, None for a JSON null
Intents == {"chat", "financial", "listing", "other", None}

FailureKinds == {"raise", "raise_timeout", "badjson", "nonobject"}

\* What the intent model can answer: the call raises (raise, raise_timeout),
\* the text is not JSON (badjson), the JSON is not an object (nonobject),
\* or it is an object with these values (json).
Responses ==
    {[kind |-> k, company_name |-> None, intent |-> "chat", need_financial |-> FALSE, need_listing |-> FALSE, confidence |-> "0.0"] : k \in FailureKinds}
    \cup {[kind |-> "json", company_name |-> c, intent |-> i, need_financial |-> nf, need_listing |-> nl, confidence |-> "0.9"] : c \in Companies, i \in Intents, nf \in BOOLEAN, nl \in BOOLEAN}

\* Python truthiness of an optional string
Truthy(x) == x \notin {None, ""}

\* variant: the "no company and not chat" rule is left out
parse_llm_response_no_rule(resp) ==
    [raised |-> resp.kind = "nonobject",
     company_name |-> resp.company_name,
     intent |-> resp.intent,
     need_financial |-> resp.need_financial,
     need_listing |-> resp.need_listing,
     confidence |-> resp.confidence]

\* raised: result.get on a non-object raises AttributeError
parse_llm_response_none_only(resp) ==
    IF resp.kind = "badjson"
    THEN [raised |-> FALSE, company_name |-> None, intent |-> "chat", need_financial |-> FALSE, need_listing |-> FALSE, confidence |-> "0.0"]
    ELSE IF resp.kind = "nonobject"
    THEN [raised |-> TRUE, company_name |-> None, intent |-> None, need_financial |-> FALSE, need_listing |-> FALSE, confidence |-> None]
    ELSE IF resp.company_name = None /\ resp.intent # "chat"
    THEN [raised |-> FALSE, company_name |-> resp.company_name, intent |-> "chat", need_financial |-> FALSE, need_listing |-> FALSE, confidence |-> resp.confidence]
    ELSE [raised |-> FALSE, company_name |-> resp.company_name, intent |-> resp.intent, need_financial |-> resp.need_financial, need_listing |-> resp.need_listing, confidence |-> resp.confidence]

parse_llm_response(resp) ==
    IF resp.kind = "badjson"
    THEN [raised |-> FALSE, company_name |-> None, intent |-> "chat", need_financial |-> FALSE, need_listing |-> FALSE, confidence |-> "0.0"]
    ELSE IF resp.kind = "nonobject"
    THEN [raised |-> TRUE, company_name |-> None, intent |-> None, need_financial |-> FALSE, need_listing |-> FALSE, confidence |-> None]
    ELSE IF ~Truthy(resp.company_name) /\ resp.intent # "chat"
    THEN [raised |-> FALSE, company_name |-> resp.company_name, intent |-> "chat", need_financial |-> FALSE, need_listing |-> FALSE, confidence |-> resp.confidence]
    ELSE [raised |-> FALSE, company_name |-> resp.company_name, intent |-> resp.intent, need_financial |-> resp.need_financial, need_listing |-> resp.need_listing, confidence |-> resp.confidence]

\* str(e) of the exception the analyzer catches
ExceptionText(resp) ==
    IF resp.kind = "raise_timeout" THEN "Request timed out."
    ELSE IF resp.kind = "nonobject" THEN "'list' object has no attribute 'get'"
    ELSE "Connection error."

AnalyzerError(resp) == "analyzer error: " \o ExceptionText(resp)

Contains(seq, x) == \E i \in DOMAIN seq : seq[i] = x

analyzer_node_no_defaults(s, resp) ==
    LET parsed == parse_llm_response(resp)
        failed == resp.kind \in {"raise", "raise_timeout"} \/ parsed.raised
        error_msg == AnalyzerError(resp)
        s2 == IF failed
              THEN [s EXCEPT !.errors = IF Contains(s.errors, error_msg) THEN @ ELSE Append(@, error_msg),
                             !.trace = Append(@, error_msg)]
              ELSE [s EXCEPT !.company_name = parsed.company_name,
                             !.intent = parsed.intent,
                             !.confidence = parsed.confidence,
                             !.need_financial = parsed.need_financial,
                             !.need_listing = parsed.need_listing,
                             !.trace = Append(@, "analyzer done")]
    IN [state |-> s2, ret |-> s2]

analyzer_node(s, resp) ==
    LET parsed == parse_llm_response(resp)
        failed == resp.kind \in {"raise", "raise_timeout"} \/ parsed.raised
        error_msg == AnalyzerError(resp)
        s2 == IF failed
              THEN [s EXCEPT !.errors = IF Contains(s.errors, error_msg) THEN @ ELSE Append(@, error_msg),
                             !.trace = Append(@, error_msg),
                             !.company_name = None,
                             !.intent = "chat",
                             !.confidence = "0.0",
                             !.need_financial = FALSE,
                             !.need_listing = FALSE]
              ELSE [s EXCEPT !.company_name = parsed.company_name,
                             !.intent = parsed.intent,
                             !.confidence = parsed.confidence,
                             !.need_financial = parsed.need_financial,
                             !.need_listing = parsed.need_listing,
                             !.trace = Append(@, "analyzer done")]
    IN [state |-> s2, ret |-> s2]

(***************************************************************************)
(* nodes/fetcher.py                                                        *)
(***************************************************************************)
FetcherRoutes(s) ==
    (IF s.need_financial THEN <<"financial_tool">> ELSE <<>>) \o (IF s.need_listing THEN <<"listing_tool">> ELSE <<>>)

\* variant: the dispatcher marks both flags whatever the routes are
fetcher_node_all_flags(s) ==
    LET routes == FetcherRoutes(s)
        s2 == [s EXCEPT !.parallel_done = [financial |-> TRUE, listing |-> TRUE],
                        !.trace = Append(@, "fetcher")]
    IN [state |-> s2, ret |-> s2]

fetcher_node(s) ==
    LET routes == FetcherRoutes(s)
        s2 == IF routes = <<>>
              THEN [s EXCEPT !.parallel_done = [financial |-> TRUE, listing |-> TRUE],
                             !.trace = Append(@, "fetcher -> formatter (direct)")]
              ELSE [s EXCEPT !.trace = Append(@, IF Len(routes) = 2 THEN "fetcher -> financial_tool, listing_tool" ELSE "fetcher -> " \o routes[1])]
    IN [state |-> s2, ret |-> s2]

all_parallel_done(s) ==
    /\ ~(s.need_financial /\ ~GetFlag(s.parallel_done, "financial"))
    /\ ~(s.need_listing /\ ~GetFlag(s.parallel_done, "listing"))

(***************************************************************************)
(* tools/financial.py, tools/listing.py                                    *)
(***************************************************************************)
LOCAL_FINANCIAL_DATA ==
    [Apple |-> [market_cap |-> "2.8T", profit |-> "96B", source |-> "local_mock"],
     Microsoft |-> [market_cap |-> "3.0T", profit |-> "88B", source |-> "local_mock"],
     Amazon |-> [market_cap |-> "1.8T", profit |-> "30B", source |-> "local_mock"]]

LOCAL_LISTING_DATA ==
    [Apple |-> [listed_date |-> "1980-12-12", listing_status |-> "listed", board |-> "NASDAQ", source |-> "local_mock"],
     Microsoft |-> [listed_date |-> "1986-03-13", listing_status |-> "listed", board |-> "NASDAQ", source |-> "local_mock"],
     Amazon |-> [listed_date |-> "1997-05-15", listing_status |-> "listed", board |-> "NASDAQ", source |-> "local_mock"]]

financial_tool_silent(s) ==
    LET company == s.company_name
        data == IF company \in DOMAIN LOCAL_FINANCIAL_DATA THEN LOCAL_FINANCIAL_DATA[company]
                ELSE [market_cap |-> "unknown", profit |-> "unknown", source |-> "local_mock"]
        s2 == IF ~Truthy(company)
              THEN [s EXCEPT !.parallel_done = [@ EXCEPT !.financial = TRUE]]
              ELSE [s EXCEPT !.financial_data = <<data>>,
                             !.parallel_done = [@ EXCEPT !.financial = TRUE],
                             !.trace = Append(@, "financial_tool done")]
    IN [state |-> s2, ret |-> s2]

financial_tool(s) ==
    LET company == s.company_name
        data == IF company \in DOMAIN LOCAL_FINANCIAL_DATA THEN LOCAL_FINANCIAL_DATA[company]
                ELSE [market_cap |-> "unknown", profit |-> "unknown", source |-> "local_mock"]
        s2 == IF ~Truthy(company)
              THEN [s EXCEPT !.errors = Append(@, "financial_tool: company_name missing"),
                             !.parallel_done = [@ EXCEPT !.financial = TRUE]]
              ELSE [s EXCEPT !.financial_data = <<data>>,
                             !.parallel_done = [@ EXCEPT !.financial = TRUE],
                             !.trace = Append(@, "financial_tool done")]
    IN [state |-> s2, ret |-> s2]

listing_tool(s) ==
    LET company == s.company_name
        data == IF company \in DOMAIN LOCAL_LISTING_DATA THEN LOCAL_LISTING_DATA[company]
                ELSE [listed_date |-> "unknown", listing_status |-> "unknown", board |-> "unknown", source |-> "local_mock"]
    IN [state |-> s,
        ret |-> IF ~Truthy(company)
                THEN [errors |-> <<"listing_tool: company_name missing">>,
                      parallel_done |-> [financial |-> FALSE, listing |-> TRUE]]
                ELSE [listing_data |-> <<data>>,
                      parallel_done |-> [financial |-> FALSE, listing |-> TRUE],
                      trace |-> <<"listing_tool done">>]]

(***************************************************************************)
(* nodes/formatter.py                                                      *)
(***************************************************************************)
\* "Request timed out" in first_error or "timeout" in first_error.lower()
MentionsTimeout(e) == e = "analyzer error: Request timed out."

\* what the reply model does if it is called: it answers, answers with blank
\* text (response.content.strip() is then empty), or the call raises
ChatOutcomes == {"reply", "blank", "raise"}

generate_chat_reply_always_model(s, llm) ==
    IF Truthy(s.chat_reply) THEN s.chat_reply
    ELSE IF llm = "reply" THEN "model reply"
    ELSE IF llm = "blank" THEN ""
    ELSE "sorry, I cannot handle the request"

generate_chat_reply(s, llm) ==
    IF Truthy(s.chat_reply) THEN s.chat_reply
    ELSE IF s.errors # <<>>
    THEN IF MentionsTimeout(s.errors[1]) THEN "sorry, the request timed out"
         ELSE "sorry, the system met a problem: " \o s.errors[1]
    ELSE IF llm = "reply" THEN "model reply"
    ELSE IF llm = "blank" THEN ""
    ELSE "sorry, I cannot handle the request"

build_financial_section(s) ==
    IF s.financial_data = <<>> THEN <<>>
    ELSE <<[title |-> "financial",
            items |-> <<[label |-> "market_cap", value |-> s.financial_data[1].market_cap],
                        [label |-> "profit", value |-> s.financial_data[1].profit]>>,
            source |-> s.financial_data[1].source]>>

build_listing_section(s) ==
    IF s.listing_data = <<>> THEN <<>>
    ELSE <<[title |-> "listing",
            items |-> <<[label |-> "listed_date", value |-> s.listing_data[1].listed_date],
                        [label |-> "listing_status", value |-> s.listing_data[1].listing_status],
                        [label |-> "board", value |-> s.listing_data[1].board]>>,
            source |-> s.listing_data[1].source]>>

build_error_section(s) ==
    IF s.errors = <<>> THEN <<>>
    ELSE <<[type |-> "warning", message |-> s.errors]>>

NoDataSection ==
    [title |-> "hint", items |-> <<[label |-> "status", value |-> "no data found"]>>, source |-> "system"]

\* variant: chat mode builds the card but does not store chat_reply
formatter_node_no_reply(s, llm) ==
    LET s2 == [s EXCEPT !.card_json = <<[type |-> "chat", text |-> generate_chat_reply(s, llm)]>>,
                        !.trace = Append(@, "formatter done")]
    IN [state |-> s2, ret |-> s2]

formatter_node(s, llm) ==
    IF s.intent = "chat"
    THEN LET chat_reply == generate_chat_reply(s, llm)
             s2 == [s EXCEPT !.chat_reply = chat_reply,
                             !.card_json = <<[type |-> "chat", text |-> chat_reply]>>,
                             !.trace = Append(@, "formatter done (chat)")]
         IN [state |-> s2, ret |-> s2]
    ELSE LET found == build_financial_section(s) \o build_listing_section(s)
             sections == IF found = <<>> THEN <<NoDataSection>> ELSE found
             card == [type |-> "fin_card", company |-> s.company_name, sections |-> sections]
             card2 == IF build_error_section(s) = <<>> THEN card
                      ELSE card @@ [warnings |-> build_error_section(s)]
             s2 == [s EXCEPT !.card_json = <<card2>>,
                             !.trace = Append(@, IF Len(sections) = 2 THEN "formatter done (2 sections)" ELSE "formatter done (1 section)")]
         IN [state |-> s2, ret |-> s2]

\* the formatter calls the reply model only here
FormatterCallsModel(s) == s.intent = "chat" /\ ~Truthy(s.chat_reply) /\ s.errors = <<>>

(***************************************************************************)
(* graph.py                                                                *)
(***************************************************************************)
\* variant: every intent goes to the dispatcher
route_after_analyzer_always_fetch(s) == "fetcher"

route_after_analyzer(s) == IF s.intent = "chat" THEN "formatter" ELSE "fetcher"

route_after_fetcher_one_lookup(s) ==
    LET next_nodes == IF s.need_financial THEN <<"financial_tool">> ELSE IF s.need_listing THEN <<"listing_tool">> ELSE <<>>
    IN IF next_nodes = <<>> THEN <<"formatter">> ELSE next_nodes

route_after_fetcher(s) ==
    LET next_nodes == (IF s.need_financial THEN <<"financial_tool">> ELSE <<>>) \o (IF s.need_listing THEN <<"listing_tool">> ELSE <<>>)
    IN IF next_nodes = <<>> THEN <<"formatter">> ELSE next_nodes

Range(seq) == {seq[i] : i \in DOMAIN seq}

\* variant: the lookup nodes lead back to the dispatcher
Successors_tool_loop(n, s) ==
    CASE n = "retrieve_node" -> {"analyzer"}
      [] n = "analyzer" -> {route_after_analyzer(s)}
      [] n = "fetcher" -> Range(route_after_fetcher(s))
      [] n = "financial_tool" -> {"fetcher"}
      [] n = "listing_tool" -> {"fetcher"}
      [] n = "formatter" -> {}

\* variant: the formatter leads back to the entry point
Successors_restart(n, s) ==
    CASE n = "retrieve_node" -> {"analyzer"}
      [] n = "analyzer" -> {route_after_analyzer(s)}
      [] n = "fetcher" -> Range(route_after_fetcher(s))
      [] n = "financial_tool" -> {"formatter"}
      [] n = "listing_tool" -> {"formatter"}
      [] n = "formatter" -> {"retrieve_node"}

\* build_graph: the edges leaving node n, evaluated on the State after n's superstep;
\* the empty set is END
Successors(n, s) ==
    CASE n = "retrieve_node" -> {"analyzer"}
      [] n = "analyzer" -> {route_after_analyzer(s)}
      [] n = "fetcher" -> Range(route_after_fetcher(s))
      [] n = "financial_tool" -> {"formatter"}
      [] n = "listing_tool" -> {"formatter"}
      [] n = "formatter" -> {}

NextFrontier(F, s) == UNION {Successors(n, s) : n \in F}

(***************************************************************************)
(* graph.compile(): the superstep executor over State's channels           *)
(***************************************************************************)
\* the tasks of a superstep in the order their writes are applied
TaskOrder(F) == SelectSeq(NodeOrder, LAMBDA n : n \in F)

\* the tasks of order whose returned mapping has key f
Writers(f, order, u) == SelectSeq(order, LAMBDA n : f \in DOMAIN u[n])

RECURSIVE FoldReduce(_, _, _, _)
FoldReduce(f, cur, ws, u) ==
    IF ws = <<>> THEN cur
    ELSE FoldReduce(f, Reduce(f, cur, u[Head(ws)][f]), Tail(ws), u)

\* a plain field written by two tasks of one superstep is rejected (InvalidUpdateError)
Conflict(order, u) ==
    \E f \in Fields \ ReducerFields : Len(Writers(f, order, u)) > 1

ChannelUpdate(f, cur, order, u) ==
    LET ws == Writers(f, order, u)
    IN IF f \in ReducerFields THEN FoldReduce(f, cur, ws, u)
       ELSE IF ws = <<>> THEN cur
       ELSE u[ws[Len(ws)]][f]

ApplyWrites(cur, order, u) == [f \in Fields |-> ChannelUpdate(f, cur[f], order, u)]

on_message_progress_first(prog, node_name, node_output) ==
    LET trace == IF "trace" \in DOMAIN node_output THEN node_output.trace ELSE <<>>
    IN IF trace # <<>> THEN Append(prog, [node |-> node_name, text |-> trace[1]])
       ELSE prog

\* on_message, the body of the astream loop for one event {node_name: node_output}:
\* the last trace entry of the output is streamed, if the output has one
on_message_progress(prog, node_name, node_output) ==
    LET trace == IF "trace" \in DOMAIN node_output THEN node_output.trace ELSE <<>>
    IN IF trace # <<>> THEN Append(prog, [node |-> node_name, text |-> trace[Len(trace)]])
       ELSE prog

\* the objects a node changes in place (list.append, item assignment in
\* parallel_done) are the channel's own objects when the executor hands them
\* over without copying
InPlace(cur, s2) ==
    [cur EXCEPT !.errors = s2.errors, !.trace = s2.trace, !.parallel_done = s2.parallel_done]

NoWrites == [n \in Nodes |-> <<>>]

NoCall == [op |-> None]

Idle(n) == status = "running" /\ n \in frontier \ (done \cup hung)

Complete(n, r) ==
    /\ done' = done \cup {n}
    /\ upd' = [upd EXCEPT ![n] = r.ret]
    /\ st' = IF alias THEN InPlace(st, r.state) ELSE st
    /\ calls' = Append(calls, [node |-> n, received |-> st, left |-> r.state, keys |-> DOMAIN r.ret])
    /\ progress' = on_message_progress(progress, n, r.ret)
    /\ UNCHANGED <<frontier, hung, status, step, invoked, alias, fn>>

Init ==
    /\ alias \in BOOLEAN
    /\ \E h \in Histories : st = InitialState(h)
    /\ frontier = {"retrieve_node"}
    /\ done = {}
    /\ upd = NoWrites
    /\ hung = {}
    /\ status = "running"
    /\ step = 1
    /\ invoked = [n \in Nodes |-> IF n = "retrieve_node" THEN 1 ELSE 0]
    /\ reply = [kind |-> None]
    /\ calls = <<>>
    /\ progress = <<>>
    /\ chat = None
    /\ fn = NoCall

\* retrieve_node calls _sync_retrieve outside any try block of its own (in
\* its chainlit branch a second time after the first call raised): an
\* exception of _sync_retrieve leaves the node and ends the run
RunRetrieve ==
    /\ Idle("retrieve_node")
    /\ \E outcome \in SyncOutcomes :
         LET r == sync_retrieve(outcome)
         IN IF r.raised
            THEN /\ status' = "aborted"
                 /\ UNCHANGED <<st, frontier, done, upd, hung, step, invoked, alias, calls, progress, fn>>
            ELSE Complete("retrieve_node", retrieve_node(st, r.context # <<>>))
    /\ UNCHANGED <<reply, chat>>

RunAnalyzer ==
    /\ Idle("analyzer")
    /\ \E resp \in Responses :
         /\ Complete("analyzer", analyzer_node(st, resp))
         /\ reply' = resp
    /\ UNCHANGED chat

RunFetcher ==
    /\ Idle("fetcher")
    /\ Complete("fetcher", fetcher_node(st))
    /\ UNCHANGED <<reply, chat>>

RunFinancial ==
    /\ Idle("financial_tool")
    /\ Complete("financial_tool", financial_tool(st))
    /\ UNCHANGED <<reply, chat>>

RunListing ==
    /\ Idle("listing_tool")
    /\ Complete("listing_tool", listing_tool(st))
    /\ UNCHANGED <<reply, chat>>

RunFormatter ==
    /\ Idle("formatter")
    /\ \E llm \in ChatOutcomes :
         /\ Complete("formatter", formatter_node(st, llm))
         /\ chat' = IF FormatterCallsModel(st) THEN llm ELSE None
    /\ UNCHANGED reply

\* the nodes that wait for a collaborator (vector store, model call); no call
\* is given a timeout
Blocks(n, s) ==
    \/ n \in {"retrieve_node", "analyzer"}
    \/ n = "formatter" /\ FormatterCallsModel(s)

\* a collaborator call that never returns
Hang ==
    \E n \in Nodes :
        /\ Idle(n)
        /\ Blocks(n, st)
        /\ hung' = hung \cup {n}
        /\ UNCHANGED <<st, frontier, done, upd, status, step, invoked, reply, alias, calls, progress, chat, fn>>

Barrier == status = "running" /\ done = frontier

Merged == ApplyWrites(st, TaskOrder(frontier), upd)

\* two writes to a plain field: the run ends with InvalidUpdateError
Abort ==
    /\ Barrier
    /\ Conflict(TaskOrder(frontier), upd)
    /\ status' = "aborted"
    /\ UNCHANGED <<st, frontier, done, upd, hung, step, invoked, reply, alias, calls, progress, chat, fn>>

Advance ==
    /\ Barrier
    /\ ~Conflict(TaskOrder(frontier), upd)
    /\ NextFrontier(frontier, Merged) # {}
    /\ step < MaxSupersteps
    /\ st' = Merged
    /\ frontier' = NextFrontier(frontier, Merged)
    /\ done' = {}
    /\ upd' = NoWrites
    /\ step' = step + 1
    /\ invoked' = [n \in Nodes |-> IF n \in frontier' THEN invoked[n] + 1 ELSE invoked[n]]
    /\ UNCHANGED <<hung, status, reply, alias, calls, progress, chat, fn>>

\* every edge leads to END: the run is over
Finish ==
    /\ Barrier
    /\ ~Conflict(TaskOrder(frontier), upd)
    /\ NextFrontier(frontier, Merged) = {}
    /\ st' = Merged
    /\ status' = "terminal"
    /\ UNCHANGED <<frontier, done, upd, hung, step, invoked, reply, alias, calls, progress, chat, fn>>

Next ==
    \/ RunRetrieve
    \/ RunAnalyzer
    \/ RunFetcher
    \/ RunFinancial
    \/ RunListing
    \/ RunFormatter
    \/ Hang
    \/ Abort
    \/ Advance
    \/ Finish

Spec == Init /\ [][Next]_vars

\* the executor keeps running the nodes that can run and applies the barrier
FairSpec == Spec /\ WF_vars(Next)

(***************************************************************************)
(* The functions of state.py applied on their own                          *)
(***************************************************************************)
\* the parallel_done mappings, a key possibly missing
PartialDone == UNION {[D -> BOOLEAN] : D \in SUBSET {"financial", "listing"}}

Chars == {"a", " "}

Texts == UNION {[1..n -> Chars] : n \in 0..MaxQueryLen}

\* what a caller can pass as user_query
QueryArgs == {[type |-> "str", text |-> t] : t \in Texts} \cup {[type |-> "NoneType", text |-> <<>>], [type |-> "int", text |-> <<>>]}

\* no run of the graph is going on
NoRun ==
    /\ alias = FALSE
    /\ st = make_initial_state("q")
    /\ frontier = {}
    /\ done = {}
    /\ upd = NoWrites
    /\ hung = {}
    /\ status = "idle"
    /\ step = 1
    /\ invoked = [n \in Nodes |-> 0]
    /\ reply = [kind |-> None]
    /\ calls = <<>>
    /\ progress = <<>>
    /\ chat = None

\* the States a lookup can be called with: after the fetcher, with any
\* company_name, with or without an earlier error
LookupInputs ==
    {[fetcher_node([make_initial_state("q") EXCEPT !.company_name = c, !.need_financial = TRUE, !.need_listing = nl, !.errors = e]).state
         EXCEPT !.intent = "financial"] :
        c \in Companies, nl \in BOOLEAN, e \in {<<>>, <<"earlier error">>}}

\* the States formatter_node can be called with: chat or a lookup intent,
\* chat_reply absent, empty or already set, errors empty or not
FormatterInputs ==
    {[make_initial_state("q") EXCEPT !.intent = i, !.company_name = IF i = "chat" THEN None ELSE "Apple",
                                     !.chat_reply = c, !.errors = e] :
        i \in {"chat", "financial"},
        c \in {None, "", "earlier reply"},
        e \in {<<>>, <<AnalyzerError([kind |-> "raise"])>>, <<AnalyzerError([kind |-> "raise_timeout"])>>,
               <<"listing_tool: company_name missing", AnalyzerError([kind |-> "raise"])>>}}

FunInit ==
    /\ NoRun
    /\ \/ \E a, b, c \in PartialDone : fn = [op |-> None, fun |-> "merge_parallel_done", args |-> <<a, b, c>>]
       \/ \E q \in QueryArgs : fn = [op |-> None, fun |-> "make_initial_state", args |-> <<q>>]
       \/ \E n \in Lookups, s \in LookupInputs : fn = [op |-> None, fun |-> "lookup", args |-> <<n, s>>]
       \/ \E s \in FormatterInputs : fn = [op |-> None, fun |-> "formatter_node", args |-> <<s>>]

graph == <<st, frontier, done, upd, hung, status, step, invoked, reply, alias, calls, progress, chat>>

\* merge_parallel_done applied to the mappings a, b, c in the orders and
\* groupings that its algebra is about
ApplyMerge ==
    /\ fn.op = None
    /\ fn.fun = "merge_parallel_done"
    /\ LET a == fn.args[1]
           b == fn.args[2]
           c == fn.args[3]
       IN fn' = [op |-> "merge_parallel_done", args |-> fn.args,
                 ab |-> merge_parallel_done(a, b),
                 ba |-> merge_parallel_done(b, a),
                 aa |-> merge_parallel_done(a, a),
                 ab_c |-> merge_parallel_done(merge_parallel_done(a, b), c),
                 a_bc |-> merge_parallel_done(a, merge_parallel_done(b, c))]
    /\ UNCHANGED graph

ApplyMakeInitialState ==
    /\ fn.op = None
    /\ fn.fun = "make_initial_state"
    /\ LET q == fn.args[1]
           exc == make_initial_state_raises(q)
       IN fn' = [op |-> "make_initial_state", args |-> fn.args,
                 raised |-> exc,
                 state |-> IF exc = None THEN <<make_initial_state(q.text)>> ELSE <<>>]
    /\ UNCHANGED graph

\* financial_tool or listing_tool called on a State
ApplyLookup ==
    /\ fn.op = None
    /\ fn.fun = "lookup"
    /\ LET n == fn.args[1]
           s == fn.args[2]
           r == IF n = "financial_tool" THEN financial_tool(s) ELSE listing_tool(s)
       IN fn' = [op |-> "lookup", args |-> fn.args, ret |-> r.ret, left |-> r.state]
    /\ UNCHANGED graph

\* formatter_node called on a State, once for each thing the reply model can
\* do if it is called
ApplyFormatter ==
    /\ fn.op = None
    /\ fn.fun = "formatter_node"
    /\ fn' = [op |-> "formatter_node", args |-> fn.args,
              out |-> [llm \in ChatOutcomes |-> formatter_node(fn.args[1], llm).ret]]
    /\ UNCHANGED graph

FunNext == ApplyMerge \/ ApplyMakeInitialState \/ ApplyLookup \/ ApplyFormatter

FunSpec == FunInit /\ [][FunNext]_vars

TypeOK ==
    /\ frontier \subseteq Nodes
    /\ done \subseteq frontier
    /\ status \in {"running", "terminal", "aborted"}
    /\ chat \in ChatOutcomes \cup {None}
    /\ \A i \in DOMAIN calls : calls[i].node \in Nodes
    /\ Len(progress) <= Len(calls)
    /\ fn = NoCall

(***************************************************************************)
(* Properties                                                              *)
(***************************************************************************)
\* the analyzer's superstep has been merged into State
Analyzed == step >= 3

Terminal == status = "terminal"

NoLookupInvoked == \A n \in Lookups : invoked[n] = 0

\* C1: the formatter is never invoked while a required lookup's parallel_done
\* flag is still false.
C1_FormatterGated ==
    (status = "running" /\ "formatter" \in frontier) => all_parallel_done(st)

\* C2: when both lookups ran in one superstep, merging their two returned
\* mappings gives a State, and the same State whichever of the two is merged
\* first.
C2_MergeOrderIndependent ==
    (Barrier /\ frontier = Lookups) =>
        /\ ~Conflict(<<"financial_tool", "listing_tool">>, upd)
        /\ ApplyWrites(st, <<"financial_tool", "listing_tool">>, upd) = ApplyWrites(st, <<"listing_tool", "financial_tool">>, upd)

\* C3 as stated: a run through the fetcher ends with both parallel_done flags true.
C3_Original ==
    (Terminal /\ invoked["fetcher"] > 0) => st.parallel_done = [financial |-> TRUE, listing |-> TRUE]

\* C3 (amended): at Terminal of a run through the fetcher, a parallel_done
\* flag is true exactly when its lookup was required or no lookup was
\* required at all; the flag of a lookup that was not required while the
\* other one was stays false.
C3_Flags ==
    (Terminal /\ invoked["fetcher"] > 0) =>
        /\ st.parallel_done.financial = (st.need_financial \/ ~st.need_listing)
        /\ st.parallel_done.listing = (st.need_listing \/ ~st.need_financial)
        /\ st.need_financial => invoked["financial_tool"] = 1
        /\ st.need_listing => invoked["listing_tool"] = 1

C3_Witness ==
    /\ Terminal
    /\ invoked["fetcher"] > 0
    /\ st.need_financial /\ ~st.need_listing
    /\ st.parallel_done = [financial |-> TRUE, listing |-> FALSE]

\* C4: once the analyzer has left intent = "chat", the run goes straight to
\* the formatter and then ends; fetcher, financial_tool and listing_tool are
\* never invoked, whatever need_financial and need_listing are.
C4_ChatShortCircuit ==
    (Analyzed /\ st.intent = "chat") =>
        /\ step = 3
        /\ frontier = {"formatter"}
        /\ invoked["fetcher"] = 0
        /\ NoLookupInvoked

C4_Witness ==
    /\ Terminal
    /\ st.intent = "chat"
    /\ st.need_financial /\ st.need_listing
    /\ invoked["formatter"] = 1

\* C5 as stated: at Terminal of a chat run chat_reply is present and card_json is absent.
C5_Original ==
    (Terminal /\ st.intent = "chat") => (st.chat_reply # None /\ st.card_json = <<>>)

\* C5 (amended): at Terminal of a chat run chat_reply is present and
\* card_json is the chat card carrying the same text.
C5_ChatCard ==
    (Terminal /\ st.intent = "chat") =>
        /\ st.chat_reply # None
        /\ st.card_json = <<[type |-> "chat", text |-> st.chat_reply]>>

C5_Witness ==
    /\ Terminal
    /\ st.intent = "chat"
    /\ st.chat_reply = "model reply"

\* the intent model answered an object without company_name and with an
\* intent other than chat
NoCompanyNotChat ==
    /\ reply.kind = "json"
    /\ ~Truthy(reply.company_name)
    /\ reply.intent # "chat"

\* C6: when the parsed answer has no company_name and an intent other than
\* chat, the analyzer writes intent = chat and both need flags false, no
\* lookup node is invoked, and the Terminal state has chat_reply set.
C6_NoCompanyForcesChat ==
    NoCompanyNotChat =>
        /\ ("analyzer" \in done) =>
              /\ upd["analyzer"].intent = "chat"
              /\ ~upd["analyzer"].need_financial
              /\ ~upd["analyzer"].need_listing
        /\ Analyzed => (st.intent = "chat" /\ ~st.need_financial /\ ~st.need_listing)
        /\ NoLookupInvoked
        /\ Terminal => st.chat_reply # None

C6_Witness ==
    /\ Terminal
    /\ reply.kind = "json"
    /\ reply.company_name = None
    /\ reply.intent = "financial"
    /\ reply.need_financial
    /\ st.chat_reply # None

\* C7: a run only stops at Terminal, and there chat_reply or card_json is set.
C7_AlwaysAnswers ==
    (status # "running") => (Terminal /\ (st.chat_reply # None \/ st.card_json # <<>>))

\* C8: a node that never returns is timed out and the run still reaches Terminal.
C8_TimeoutRecovers == (hung # {}) ~> Terminal

\* C9 as stated: Terminal is reached within 3 supersteps counted from the analyzer.
C9_Original == Terminal => (step - 1 <= 3)

\* C9 (amended): counted from the analyzer, no run executes more than 4
\* supersteps: Terminal is reached after 2 (chat), 3 (no lookup) or 4 (a
\* lookup ran).
C9_Bound ==
    /\ step - 1 <= 4
    /\ Terminal =>
          step - 1 = (IF st.intent = "chat" THEN 2 ELSE IF NoLookupInvoked THEN 3 ELSE 4)

C9_Witness ==
    /\ Terminal
    /\ step - 1 = 4
    /\ invoked["financial_tool"] = 1

\* C10: no node is invoked twice in a run and a run executes at most as many
\* supersteps as there are nodes.
C10_Acyclic ==
    /\ [](\A n \in Nodes : invoked[n] <= 1)
    /\ [](step <= Cardinality(Nodes))
    /\ <>(status # "running" \/ hung # {})

C10_Witness ==
    /\ Terminal
    /\ step = 5
    /\ Cardinality({n \in Nodes : invoked[n] = 1}) = 5


(***************************************************************************)
(* The progress lines of on_message                                        *)
(***************************************************************************)
\* the trace entries a node writes for its own call
TraceTexts(n) ==
    CASE n = "retrieve_node" -> {"retrieve_node: found documents", "retrieve_node: no documents"}
      [] n = "analyzer" -> {"analyzer done"} \cup {AnalyzerError(r) : r \in Responses}
      [] n = "fetcher" -> {"fetcher -> formatter (direct)", "fetcher -> financial_tool, listing_tool", "fetcher -> financial_tool", "fetcher -> listing_tool"}
      [] n = "financial_tool" -> {"financial_tool done"}
      [] n = "listing_tool" -> {"listing_tool done"}
      [] n = "formatter" -> {"formatter done", "formatter done (chat)", "formatter done (2 sections)", "formatter done (1 section)"}

LookupHasCompany ==
    \A i \in DOMAIN calls : calls[i].node \in Lookups => Truthy(calls[i].received.company_name)

(***************************************************************************)
(* What the reducers leave in State                                        *)
(***************************************************************************)
\* the updates of every node call that has returned are merged into State
Settled == status = "terminal" \/ (status = "running" /\ done = {})

NoRepeat(seq) == \A i, j \in DOMAIN seq : seq[i] = seq[j] => i = j

\* C12: once the reducers have been applied, State.trace holds exactly one
\* entry for every node call that has returned (two for the lookups of a dual
\* fan-out and one more for the formatter), and no entry occurs twice.
C12_TraceOnePerNode ==
    Settled => Len(st.trace) = Len(calls) /\ NoRepeat(st.trace)

\* both lookups were needed and both have been called
DualFanOut == st.need_financial /\ st.need_listing /\ \A n \in Lookups : invoked[n] = 1

Sections(card) == IF card # <<>> /\ "sections" \in DOMAIN card[1] THEN card[1].sections ELSE <<>>

\* C13: in a dual fan-out the superstep of the two lookups is merged (the run
\* does not stop there), the formatter is called with both financial_data and
\* listing_data present, and at Terminal card_json has exactly two distinct
\* sections and parallel_done is true for both lookups.
C13_DualFanOutJoins ==
    DualFanOut =>
        /\ status # "aborted"
        /\ \A i \in DOMAIN calls : calls[i].node = "formatter" =>
              calls[i].received.financial_data # <<>> /\ calls[i].received.listing_data # <<>>
        /\ Terminal =>
              /\ Len(Sections(st.card_json)) = 2
              /\ NoRepeat(Sections(st.card_json))
              /\ st.parallel_done = [financial |-> TRUE, listing |-> TRUE]

\* the node calls that took their failure branch: the analyzer when the intent
\* model raised or its answer could not be used, a lookup without a company name
FailedCalls ==
    {i \in DOMAIN calls :
        \/ calls[i].node = "analyzer" /\ reply.kind \in {"raise", "raise_timeout", "nonobject"}
        \/ calls[i].node \in Lookups /\ ~Truthy(calls[i].received.company_name)}

\* C14: at Terminal State.errors holds exactly one entry for every node call
\* that failed.
C14_OneErrorPerFailure ==
    Terminal => Len(st.errors) = Cardinality(FailedCalls)

(***************************************************************************)
(* What a node writes and what it touches                                  *)
(***************************************************************************)
\* C15: an update that writes financial_data comes from financial_tool, one
\* that writes listing_data comes from listing_tool, and the update
\* financial_tool returns has no field besides financial_data, parallel_done,
\* errors and trace.
C15_WriteSets ==
    \A n \in done :
        /\ "financial_data" \in DOMAIN upd[n] => n = "financial_tool"
        /\ "listing_data" \in DOMAIN upd[n] => n = "listing_tool"
        /\ n = "financial_tool" => DOMAIN upd[n] \subseteq {"financial_data", "parallel_done", "errors", "trace"}

\* C16: a node call leaves the mapping it received as it was, and State does
\* not change while the nodes of a superstep run: it changes only when the
\* barrier merges their updates.
C16_SnapshotReadOnly ==
    /\ \A i \in DOMAIN calls : calls[i].left = calls[i].received
    /\ (status = "running" /\ calls # <<>> /\ done # {}) =>
          \A i \in DOMAIN calls : calls[i].node \in done => calls[i].received = st

(***************************************************************************)
(* state.py: merge_parallel_done and make_initial_state                    *)
(***************************************************************************)
Keys == {"financial", "listing"}

\* C17: merge_parallel_done(a, b) has for each key the OR of the two flags, a
\* missing key read as false; it gives the same result for (a, b) and (b, a)
\* and for either grouping of a, b, c; merging a mapping with itself keeps its
\* flags (and the mapping itself when it has both keys); a key true in a or b
\* is true in the result.
C17_MergeAlgebra ==
    fn.op = "merge_parallel_done" =>
        LET a == fn.args[1]
            b == fn.args[2]
        IN /\ DOMAIN fn.ab = Keys
           /\ \A k \in Keys : fn.ab[k] = (GetFlag(a, k) \/ GetFlag(b, k))
           /\ fn.ab = fn.ba
           /\ fn.ab_c = fn.a_bc
           /\ \A k \in Keys : fn.aa[k] = GetFlag(a, k)
           /\ DOMAIN a = Keys => fn.aa = a
           /\ \A k \in Keys : (GetFlag(a, k) \/ GetFlag(b, k)) => fn.ab[k]

\* a merge of a left mapping with financial set and a right mapping that has
\* only the key listing
C17_Witness ==
    /\ fn.op = "merge_parallel_done"
    /\ fn.args[1] = [financial |-> TRUE, listing |-> FALSE]
    /\ DOMAIN fn.args[2] = {"listing"} /\ fn.args[2].listing
    /\ fn.ab = [financial |-> TRUE, listing |-> TRUE]

WhitespaceOnly(t) == \A i \in DOMAIN t : t[i] = " "

\* C19: make_initial_state raises exactly when user_query is not a string or
\* is empty or whitespace-only; otherwise it returns a State with user_query
\* as given, the optional fields None, both need flags false, errors, trace
\* and conversation_history empty and parallel_done false for both lookups.
C19_InitialState ==
    fn.op = "make_initial_state" =>
        LET q == fn.args[1]
        IN /\ (fn.raised # None) <=> (q.type # "str" \/ WhitespaceOnly(q.text))
           /\ fn.raised = None =>
                 /\ fn.state # <<>>
                 /\ DOMAIN fn.state[1] = Fields
                 /\ fn.state[1].user_query = q.text
                 /\ \A f \in {"company_name", "intent", "confidence", "chat_reply"} : fn.state[1][f] = None
                 /\ \A f \in {"financial_data", "listing_data", "card_json"} : fn.state[1][f] = <<>>
                 /\ ~fn.state[1].need_financial /\ ~fn.state[1].need_listing
                 /\ \A f \in {"errors", "trace", "conversation_history"} : fn.state[1][f] = <<>>
                 /\ fn.state[1].parallel_done = [financial |-> FALSE, listing |-> FALSE]

\* a whitespace-only query has been refused
C19_Witness ==
    /\ fn.op = "make_initial_state"
    /\ fn.args[1] = [type |-> "str", text |-> <<" ", " ">>]
    /\ fn.raised = "ValueError"

(***************************************************************************)
(* graph.py: the routing after the fetcher                                 *)
(***************************************************************************)
\* the superstep scheduled by the routing after the fetcher
AfterFetcher == step = 4 /\ invoked["fetcher"] = 1

\* C18: the superstep after the fetcher holds financial_tool exactly when
\* need_financial is set and listing_tool exactly when need_listing is set
\* (both together when both are set), it is the formatter alone exactly when
\* neither is set, and the formatter never shares a superstep with a lookup.
C18_FetcherRouting ==
    /\ AfterFetcher =>
          /\ "financial_tool" \in frontier <=> st.need_financial
          /\ "listing_tool" \in frontier <=> st.need_listing
          /\ frontier = {"formatter"} <=> (~st.need_financial /\ ~st.need_listing)
          /\ frontier \subseteq Lookups \cup {"formatter"}
    /\ "formatter" \in frontier => frontier = {"formatter"}

\* both lookups scheduled in one superstep
C18_Witness == AfterFetcher /\ frontier = Lookups /\ st.need_financial /\ st.need_listing

(***************************************************************************)
(* conversation_history                                                    *)
(***************************************************************************)
\* C20: no step of a run changes State.conversation_history: in every state
\* it is the sequence the caller supplied.
C20_HistoryReadOnly == [][st'.conversation_history = st.conversation_history]_vars

(***************************************************************************)
(* tools/financial.py, tools/listing.py called on their own                *)
(***************************************************************************)
DataField(n) == IF n = "financial_tool" THEN "financial_data" ELSE "listing_data"

FlagOf(n) == IF n = "financial_tool" THEN "financial" ELSE "listing"

\* the record the update writes into field f (none: <<>>)
Written(ret, f) == IF f \in DOMAIN ret THEN ret[f] ELSE <<>>

\* the entries the update adds to errors: the whole-State return of
\* financial_tool carries the earlier entries in front of them
AddedErrors(n, s, ret) ==
    LET e == Written(ret, "errors")
    IN IF n = "financial_tool" THEN SubSeq(e, Len(s.errors) + 1, Len(e)) ELSE e

UnknownRecord(n) ==
    IF n = "financial_tool" THEN [market_cap |-> "unknown", profit |-> "unknown", source |-> "local_mock"]
    ELSE [listed_date |-> "unknown", listing_status |-> "unknown", board |-> "unknown", source |-> "local_mock"]

\* C21 as stated: a lookup called without a company name writes an 'unknown'
\* record into its data field, adds an error note and sets its flag; called
\* with a company that is not in its table it writes the 'unknown' record.
C21_Original ==
    fn.op = "lookup" =>
        LET n == fn.args[1]
            s == fn.args[2]
        IN /\ ~Truthy(s.company_name) =>
                 /\ Written(fn.ret, DataField(n)) = <<UnknownRecord(n)>>
                 /\ Len(AddedErrors(n, s, fn.ret)) = 1
                 /\ fn.ret.parallel_done[FlagOf(n)]
           /\ s.company_name = "UnknownCorp" => Written(fn.ret, DataField(n)) = <<UnknownRecord(n)>>

\* C21 amended: a lookup called without a company name writes no record (its
\* data field stays None), adds exactly one error note and sets its flag;
\* called with a company that is not in its table it writes the record whose
\* data values are 'unknown' (source local_mock), adds no error and sets its flag.
C21_Lookup ==
    fn.op = "lookup" =>
        LET n == fn.args[1]
            s == fn.args[2]
        IN /\ ~Truthy(s.company_name) =>
                 /\ Written(fn.ret, DataField(n)) = <<>>
                 /\ Len(AddedErrors(n, s, fn.ret)) = 1
                 /\ fn.ret.parallel_done[FlagOf(n)]
           /\ s.company_name = "UnknownCorp" =>
                 /\ Written(fn.ret, DataField(n)) = <<UnknownRecord(n)>>
                 /\ AddedErrors(n, s, fn.ret) = <<>>
                 /\ fn.ret.parallel_done[FlagOf(n)]

\* financial_tool has been called without a company name
C21_Witness ==
    /\ fn.op = "lookup"
    /\ fn.args[1] = "financial_tool"
    /\ fn.args[2].company_name = None
    /\ fn.ret.financial_data = <<>>
    /\ fn.ret.errors # <<>>

(***************************************************************************)
(* Updates with a key State does not declare                               *)
(***************************************************************************)
UndeclaredReturned == \E i \in DOMAIN calls : ~(calls[i].keys \subseteq Fields)

\* C22: once a node has returned an update with a key that State does not
\* declare, the run does not reach Terminal.
C22_UndeclaredFatal == UndeclaredReturned => ~Terminal

(***************************************************************************)
(* nodes/analyzer.py: failures and the values of intent                    *)
(***************************************************************************)
\* C23: when the intent model call raises or its answer is not JSON or not a
\* JSON object, State after the analyzer has company_name None, intent chat,
\* confidence 0.0 and both need flags false, the run is not aborted and its
\* next superstep is the formatter alone (no fetcher, no lookup).
C23_FailureDefaults ==
    (Analyzed /\ reply.kind \in FailureKinds) =>
        /\ st.company_name = None
        /\ st.intent = "chat"
        /\ st.confidence = "0.0"
        /\ ~st.need_financial /\ ~st.need_listing
        /\ status # "aborted"
        /\ step = 3 /\ frontier = {"formatter"}
        /\ invoked["fetcher"] = 0 /\ NoLookupInvoked

\* the model call raised and the formatter has answered
C23_Witness == Terminal /\ reply.kind = "raise" /\ st.chat_reply # None

(***************************************************************************)
(* errors and trace only grow                                              *)
(***************************************************************************)
IsPrefix(p, q) == Len(p) <= Len(q) /\ SubSeq(q, 1, Len(p)) = p

\* C24: across every step of a run the value of errors, and of trace, before
\* the step is a prefix of its value after the step.
C24_OnlyGrow ==
    [][IsPrefix(st.errors, st'.errors) /\ IsPrefix(st.trace, st'.trace)]_vars

\* a run with a lookup has ended: several merges have extended trace
C24_Witness == Terminal /\ invoked["listing_tool"] = 1 /\ Len(st.trace) >= 4

(***************************************************************************)
(* The formatter runs once, after the lookups                              *)
(***************************************************************************)
Returned(n) == \E i \in DOMAIN calls : calls[i].node = n

\* C25: the formatter is invoked at most once, a run that has ended has
\* invoked it exactly once, and when it is invoked every lookup the fetcher
\* scheduled has returned and its superstep has been merged.
C25_FormatterOnce ==
    /\ invoked["formatter"] <= 1
    /\ status # "running" => invoked["formatter"] = 1
    /\ invoked["formatter"] = 1 =>
          \A n \in Lookups : invoked[n] = 1 => Returned(n) /\ n \notin frontier

(***************************************************************************)
(* nodes/retriever.py                                                      *)
(***************************************************************************)
\* the run ended in its first superstep: retrieve_node raised
RetrieveRaised == status = "aborted" /\ step = 1

\* C26: retrieve_node is run exactly once and never raises: whatever the
\* vector store does, the node returns an update with one trace note and the
\* run goes on to the analyzer.
C26_RetrieveNeverRaises ==
    /\ invoked["retrieve_node"] = 1
    /\ ~RetrieveRaised
    /\ Returned("retrieve_node") => calls[1].node = "retrieve_node" /\ progress[1].node = "retrieve_node"
    /\ step = 2 => frontier = {"analyzer"}

(***************************************************************************)
(* The analyzer's error message in errors                                  *)
(***************************************************************************)
Occurrences(seq, x) == Cardinality({i \in DOMAIN seq : seq[i] = x})

AnalyzerFailed == reply.kind \in {"raise", "raise_timeout", "nonobject"}

\* C27: in a run in which the analyzer failed, State.errors never holds its
\* error message more than once, and holds it exactly once whenever the
\* updates of the analyzer and of every later node have been merged.
C27_ErrorOnce ==
    AnalyzerFailed =>
        /\ Occurrences(st.errors, AnalyzerError(reply)) <= 1
        /\ (Analyzed /\ Settled) => Occurrences(st.errors, AnalyzerError(reply)) = 1

(***************************************************************************)
(* The lookups are only called with a company name                         *)
(***************************************************************************)
\* C28: whenever financial_tool or listing_tool is invoked, company_name is
\* neither None nor empty, so no lookup call of a run takes the branch for a
\* missing company name.
C28_LookupHasCompany ==
    /\ \A n \in Lookups : invoked[n] >= 1 => Truthy(st.company_name)
    /\ \A i \in DOMAIN calls : calls[i].node \in Lookups =>
          /\ Truthy(calls[i].received.company_name)
          /\ "parallel_done" \in calls[i].keys
          /\ "trace" \in calls[i].keys

\* a lookup has been called for a company that is in no table
C28_Witness ==
    \E i \in DOMAIN calls : calls[i].node = "listing_tool" /\ calls[i].received.company_name = "UnknownCorp"

(***************************************************************************)
(* nodes/formatter.py: when the reply model is called                      *)
(***************************************************************************)
\* the result of the call depends on what the reply model does
ModelConsulted == \E l1, l2 \in ChatOutcomes : fn.out[l1] # fn.out[l2]

\* C29: formatter_node in chat mode consults the reply model only when
\* chat_reply is empty and errors is empty; with an error recorded the reply
\* is built from the first entry of errors whatever the model would do; a
\* chat_reply that is already set is returned unchanged; in every case the
\* call returns a State with chat_reply and card_json set.
C29_ChatReply ==
    (fn.op = "formatter_node" /\ fn.args[1].intent = "chat") =>
        LET s == fn.args[1]
        IN /\ ModelConsulted => (~Truthy(s.chat_reply) /\ s.errors = <<>>)
           /\ (~Truthy(s.chat_reply) /\ s.errors = <<>>) => fn.out["reply"].chat_reply = "model reply"
           /\ (~Truthy(s.chat_reply) /\ s.errors # <<>>) =>
                 \A llm \in ChatOutcomes :
                     fn.out[llm].chat_reply \in {"sorry, the request timed out", "sorry, the system met a problem: " \o s.errors[1]}
           /\ Truthy(s.chat_reply) => \A llm \in ChatOutcomes : fn.out[llm].chat_reply = s.chat_reply
           /\ \A llm \in ChatOutcomes : fn.out[llm].chat_reply # None /\ fn.out[llm].card_json # <<>>

\* the formatter has answered from a recorded error although the reply model
\* would have answered
C29_Witness ==
    /\ fn.op = "formatter_node"
    /\ fn.args[1].intent = "chat" /\ fn.args[1].chat_reply = None
    /\ Len(fn.args[1].errors) = 2
    /\ fn.out["reply"].chat_reply = "sorry, the system met a problem: listing_tool: company_name missing"

(***************************************************************************)
(* state.py IntentType                                                     *)
(***************************************************************************)
IntentType == {"financial", "listing", "chat"}

\* C30: once the analyzer's update is merged, State.intent is one of
\* financial, listing, chat.
C30_IntentDeclared == Analyzed => st.intent \in IntentType
====
